---- MODULE Spec2Model ----
(***************************************************************************)
(* The dedup ledger of the BleepingComputer RSS-to-Discord bot             *)
(* (StateManager in src/src/bleeping_scanner/state_manager.py) and the     *)
(* driver main() in src/main.py that delivers articles and records them.   *)
(*                                                                         *)
(* Three specifications:                                                   *)
(*   Spec        repeated runs of main() on one state file, starting from  *)
(*               an absent file, with delivery and write outcomes chosen   *)
(*               by the environment and the process killed at any point;   *)
(*   SpecLedger  the StateManager interface called directly on a state     *)
(*               file of any content with any configured retention;        *)
(*   SpecFilter  the queries is_posted and get_new_articles on any ledger  *)
(*               and any candidate sequence.                               *)
(***************************************************************************)
EXTENDS Integers, Sequences, FiniteSets, TLC

VARIABLES
    file,           \* the state file on disk (posted_articles.json)
    state,          \* StateManager.state, the in-memory ledger
    retention_days, \* StateManager.retention_days
    now,            \* the wall clock, in ticks
    pc,             \* position of main(): "idle", "init", "loop"
    articles,       \* main: the fetched feed (article ids)
    new_articles,   \* main: the filtered batch
    idx,            \* main: position of the for loop in new_articles
    posted_count,   \* main: posted_count
    failed_count,   \* main: failed_count
    exit_code,      \* main: the value returned by the last finished run
    runs,           \* number of runs started
    hist,           \* history of the runs (deliveries, calls, crashes)
    call,           \* the last call on the StateManager, when called directly
    peer            \* a second, concurrent invocation of the program

vars == <<file, state, retention_days, now, pc, articles, new_articles, idx,
          posted_count, failed_count, exit_code, runs, hist, call, peer>>

mainVars == <<pc, articles, new_articles, idx, posted_count, failed_count,
              exit_code, runs, hist, peer>>

-----------------------------------------------------------------------------
\* Bounds of the model.

\* Clock ticks per day: a timestamp carries its day and a fraction of it.
TicksPerDay == 2
\* Days the clock may run past one retention window after the start.
MaxExtraDays == 1
\* Entries of a state file the ledger interface is started on.
MaxEntries == 2
\* Calls of mark_posted on the ledger interface.
MaxMarks == 2
\* Runs of main().
MaxRuns == 2

\* StateManager.__init__: retention_days: int = 30
DefaultRetentionDays == 30

\* Article ids: one-character strings.
Ids == {"A", "B", "C", "D"}
\* The ids that appear in the feed of the driver.
FeedIds == {"A", "B"}
\* A feed lists up to as many articles as there are ids, an id possibly twice.
MaxFeed == Cardinality(FeedIds)
\* The ids a state file holds when the ledger interface is started on it, and
\* the ids recorded through the interface (one stored already, one not).
StoredIds == {"C", "D"}
MarkIds == {"A", "C"}

\* The clock starts late enough for every cutoff to be a date.
Epoch == (2 * DefaultRetentionDays + 2) * TicksPerDay
Horizon == Epoch + (DefaultRetentionDays + MaxExtraDays) * TicksPerDay

-----------------------------------------------------------------------------
\* Python values. A str is a sequence of character codes; a JSON value that is
\* not a str (a number, null, a list) is kind "other".

Str(s) == [kind |-> "str", s |-> s]
NotStr == [kind |-> "other", s |-> <<>>]

PyDict(d) == [kind |-> "dict", d |-> d, items |-> <<>>]
PyList(xs) == [kind |-> "list", d |-> <<>>, items |-> xs]
PyStr(xs) == [kind |-> "str", d |-> <<>>, items |-> xs]
PyScalar == [kind |-> "scalar", d |-> <<>>, items |-> <<>>]
EmptyDict == PyDict(<<>>)

\* d[k] = v on a dict.
Put(d, k, v) == [x \in DOMAIN d \cup {k} |-> IF x = k THEN v ELSE d[x]]
Restrict(d, ks) == IF ks = {} THEN <<>> ELSE [x \in ks |-> d[x]]

\* The state file: absent, present but not openable, not JSON (also: empty or
\* cut short), or a JSON document holding val.
Absent == [kind |-> "absent", val |-> EmptyDict]
Unreadable == [kind |-> "unreadable", val |-> EmptyDict]
Malformed == [kind |-> "malformed", val |-> EmptyDict]
JsonFile(v) == [kind |-> "json", val |-> v]

\* The code of the decimal digit n.
Digit(n) == 48 + n

\* datetime.isoformat(): the date in fixed width, then the fraction of the
\* day, which is left out when it is zero.
isoformat(t) ==
    LET day == t \div TicksPerDay
        frac == t % TicksPerDay
        date == <<Digit(day \div 10), Digit(day % 10)>>
    IN  Str(IF frac = 0 THEN date ELSE date \o <<46, Digit(frac)>>)

\* Python's str < str: by character code, a proper prefix is smaller.
RECURSIVE StrLess(_, _)
StrLess(a, b) ==
    IF b = <<>> THEN FALSE
    ELSE IF a = <<>> THEN TRUE
    ELSE IF Head(a) # Head(b) THEN Head(a) < Head(b)
    ELSE StrLess(Tail(a), Tail(b))

\* timestamp >= cutoff_timestamp on two str.
StrGE(a, b) == ~StrLess(a, b)

-----------------------------------------------------------------------------
\* StateManager.

\* _load_state: {} when the file is absent, when open or json.load raises, and
\* when len(state) raises (a JSON number, boolean or null); anything else that
\* json.load returns is returned as it is.
load_state(f) ==
    IF f.kind = "absent" THEN EmptyDict
    ELSE IF f.kind \in {"unreadable", "malformed"} THEN EmptyDict
    ELSE IF f.val.kind = "scalar" THEN EmptyDict
    ELSE f.val

\* article_id in self.state: a key of a dict, an element of a list, a
\* substring of a str (ids are one character long).
is_posted(st, id) ==
    IF st.kind = "dict" THEN id \in DOMAIN st.d
    ELSE \E i \in 1..Len(st.items) : st.items[i] = id

\* get_new_articles without its condition.
get_new_articles_Unfiltered(st, as) == as

\* The list comprehension of get_new_articles.
RECURSIVE get_new_articles(_, _)
get_new_articles(st, as) ==
    IF as = <<>> THEN <<>>
    ELSE IF ~is_posted(st, Head(as))
         THEN <<Head(as)>> \o get_new_articles(st, Tail(as))
         ELSE get_new_articles(st, Tail(as))

\* The sweep with > for >=.
KeepEntry_Strict(timestamp, cutoff_timestamp) ==
    /\ timestamp.s # cutoff_timestamp.s
    /\ StrGE(timestamp.s, cutoff_timestamp.s)

\* The comparison of the sweep, on one entry.
KeepEntry(timestamp, cutoff_timestamp) == StrGE(timestamp.s, cutoff_timestamp.s)

\* The cutoff without the retention.
Cutoff_NoRetention(t, days) == isoformat(t)

\* The cutoff of the sweep at clock t.
Cutoff(t, days) == isoformat(t - days * TicksPerDay)

\* _cleanup_old_entries on a dict at clock t: comparing a value that is not a
\* str with the cutoff raises TypeError before self.state is assigned.
cleanup_old_entries(st, t, days) ==
    LET cutoff_timestamp == Cutoff(t, days)
        keep == {k \in DOMAIN st.d : KeepEntry(st.d[k], cutoff_timestamp)}
    IN  IF \E k \in DOMAIN st.d : st.d[k].kind # "str"
        THEN [raised |-> TRUE, state |-> st]
        ELSE [raised |-> FALSE, state |-> PyDict(Restrict(st.d, keep))]

\* The outcomes of writing the file: "ok"; "open_fails", open(.., 'w') raises
\* and the file is untouched; "dump_fails", the file was truncated by open and
\* json.dump raises before the document is complete.
WriteOutcomes == {"ok", "open_fails", "dump_fails"}

\* A write that reports success and leaves the file as it was.
WriteFile_Skipped(f, st, wr) == f

WriteFile(f, st, wr) ==
    IF wr = "ok" THEN JsonFile(st)
    ELSE IF wr = "open_fails" THEN f
    ELSE Malformed

\* _save_state dumping the ledger as it was before the sweep.
save_state_WritesUnswept(st, f, t, days, wr) ==
    LET c == cleanup_old_entries(st, t, days)
    IN  IF c.raised
        THEN [state |-> st, file |-> f, written |-> FALSE]
        ELSE [state |-> c.state, file |-> WriteFile(f, st, wr),
              written |-> wr = "ok"]

\* _save_state at clock t: every exception of the sweep and of the write is
\* caught and logged.
save_state(st, f, t, days, wr) ==
    LET c == cleanup_old_entries(st, t, days)
    IN  IF c.raised
        THEN [state |-> st, file |-> f, written |-> FALSE]
        ELSE [state |-> c.state, file |-> WriteFile(f, c.state, wr),
              written |-> wr = "ok"]

\* mark_posted reading the file again and merging it into the ledger in
\* memory before it inserts.
mark_posted_Reloads(st, f, id, t1, t2, days, wr) ==
    IF st.kind # "dict"
    THEN [raised |-> TRUE, state |-> st, file |-> f, written |-> FALSE]
    ELSE LET disk == load_state(f)
             extra == IF disk.kind = "dict" THEN DOMAIN disk.d ELSE {}
             merged == [k \in DOMAIN st.d \cup extra |->
                           IF k \in DOMAIN st.d THEN st.d[k] ELSE disk.d[k]]
             s == save_state(PyDict(Put(merged, id, isoformat(t1))), f, t2, days, wr)
         IN  [raised |-> FALSE, state |-> s.state, file |-> s.file,
              written |-> s.written]

\* mark_posted undoing the insert when the file could not be written.
mark_posted_RollsBack(st, f, id, t1, t2, days, wr) ==
    IF st.kind # "dict"
    THEN [raised |-> TRUE, state |-> st, file |-> f, written |-> FALSE]
    ELSE LET s == save_state(PyDict(Put(st.d, id, isoformat(t1))), f, t2, days, wr)
         IN  [raised |-> FALSE, state |-> IF s.written THEN s.state ELSE st,
              file |-> s.file, written |-> s.written]

\* mark_posted: the item assignment (TypeError on a list or a str) with the
\* clock read t1, then _save_state with the clock read t2.
mark_posted(st, f, id, t1, t2, days, wr) ==
    IF st.kind # "dict"
    THEN [raised |-> TRUE, state |-> st, file |-> f, written |-> FALSE]
    ELSE LET s == save_state(PyDict(Put(st.d, id, isoformat(t1))), f, t2, days, wr)
         IN  [raised |-> FALSE, state |-> s.state, file |-> s.file,
              written |-> s.written]

-----------------------------------------------------------------------------
\* Inputs of the environment.

\* Ticks that pass between the two clock reads of one mark_posted call.
StmtAdvances == {0, 1}
\* Days that pass between two calls, or between two runs.
DayAdvances == {DefaultRetentionDays + 1}
\* The retention a StateManager is constructed with.
Retentions == {0, 1, DefaultRetentionDays}

RECURSIVE SeqsUpTo(_, _)
SeqsUpTo(S, n) ==
    IF n = 0 THEN {<<>>}
    ELSE LET shorter == SeqsUpTo(S, n - 1)
         IN  shorter \cup {Append(q, x) : q \in shorter, x \in S}

\* Values of posted_at found in a state file: written by an earlier run 31
\* days, 29 days and one tick before the start, or edited by hand into the
\* empty string, a word, or a JSON value that is not a string.
InitStamps ==
    { isoformat(Epoch - (DefaultRetentionDays + 1) * TicksPerDay),
      isoformat(Epoch - (DefaultRetentionDays - 1) * TicksPerDay),
      isoformat(Epoch - 1),
      Str(<<>>),
      Str(<<122, 122>>),
      NotStr }

DictsOver(ids, stamps) ==
    { IF DOMAIN d = {} THEN <<>> ELSE d :
        d \in { e \in UNION { [ks -> stamps] : ks \in SUBSET ids } :
                  Cardinality(DOMAIN e) <= MaxEntries } }

\* The contents of a state file that is not a JSON object.
OtherFiles ==
    {Absent, Unreadable, Malformed, JsonFile(PyScalar)}
        \cup {JsonFile(PyList(xs)) : xs \in SeqsUpTo({"A"}, 1)}
        \cup {JsonFile(PyStr(xs)) : xs \in SeqsUpTo({"A"}, 1)}

\* The contents a state file can have when a StateManager is constructed.
InitFiles ==
    OtherFiles \cup {JsonFile(PyDict(d)) : d \in DictsOver(StoredIds, InitStamps)}

-----------------------------------------------------------------------------
\* The calls on a StateManager (SpecLedger, SpecFilter).

\* call: the last call, its arguments and what it returned; before is
\* self.state when it was called, prevMark the id of the mark_posted call
\* right before it ("" when the call before was another one), prevSpan the
\* ticks that passed between the two clock reads of that call and fileBefore
\* the state file when the last call was made.
NoCall ==
    [name |-> "construct", id |-> "", cands |-> <<>>, result |-> <<>>,
     found |-> FALSE, raised |-> FALSE, written |-> FALSE, wr |-> "ok",
     t1 |-> 0, t2 |-> 0, before |-> EmptyDict, marks |-> 0, prevMark |-> "",
     prevSpan |-> 0, fileBefore |-> Absent]

\* peer: a second invocation of the program on the same state file, while
\* it is not the one taking a step: the position and the locals of its main,
\* its ledger in memory, and what is remembered of its run.
NoPeer ==
    [pc |-> "idle", state |-> EmptyDict, articles |-> <<>>,
     new_articles |-> <<>>, idx |-> 0, posted_count |-> 0, failed_count |-> 0,
     exit_code |-> -1, inRun |-> [id \in FeedIds |-> 0], loaded |-> EmptyDict,
     feed |-> <<>>, runWriteFails |-> 0, runFailed |-> FALSE, runMarks |-> 0]

Keys(st) ==
    IF st.kind = "dict" THEN DOMAIN st.d
    ELSE {st.items[i] : i \in 1..Len(st.items)}

MainUnused ==
    /\ pc = "api"
    /\ articles = <<>>
    /\ new_articles = <<>>
    /\ idx = 0
    /\ posted_count = 0
    /\ failed_count = 0
    /\ exit_code = 0
    /\ runs = 0
    /\ hist = <<>>
    /\ peer = NoPeer

InitLedger ==
    /\ file \in InitFiles
    /\ retention_days \in Retentions
    /\ state = load_state(file)
    /\ now = Epoch
    /\ call = NoCall
    /\ MainUnused

\* StateManager(state_file, retention_days) again on the same file: a restart.
Construct ==
    /\ call.name # "construct"
    /\ state' = load_state(file)
    /\ call' = [NoCall EXCEPT !.marks = call.marks, !.before = state]
    /\ UNCHANGED <<file, retention_days, now, mainVars>>

MarkPosted(id, d, wr) ==
    /\ call.marks < MaxMarks
    /\ now + d <= Horizon
    /\ LET r == mark_posted(state, file, id, now, now + d, retention_days, wr)
       IN  /\ state' = r.state
           /\ file' = r.file
           /\ call' = [NoCall EXCEPT
                 !.name = "mark_posted", !.id = id, !.raised = r.raised,
                 !.written = r.written, !.wr = wr, !.t1 = now, !.t2 = now + d,
                 !.before = state, !.marks = call.marks + 1,
                 !.prevMark = IF call.name = "mark_posted" /\ ~call.raised
                              THEN call.id ELSE "",
                 !.prevSpan = IF call.name = "mark_posted" /\ ~call.raised
                              THEN call.t2 - call.t1 ELSE 0,
                 !.fileBefore = file]
    /\ now' = now + d
    /\ UNCHANGED <<retention_days, mainVars>>

\* Time passes between two calls.
AdvanceClock(days) ==
    /\ pc \in {"api", "idle"}
    /\ now + days * TicksPerDay <= Horizon
    /\ now' = now + days * TicksPerDay
    /\ UNCHANGED <<file, state, retention_days, mainVars, call>>

NextLedger ==
    \/ Construct
    \/ \E id \in MarkIds, d \in StmtAdvances, wr \in WriteOutcomes : MarkPosted(id, d, wr)
    \/ \E days \in DayAdvances : AdvanceClock(days)

SpecLedger == InitLedger /\ [][NextLedger]_vars

\* The queries, on a ledger loaded from a state file of any shape and any set
\* of keys, with the candidate sequence drawn at the start.
FilterFiles ==
    OtherFiles \cup
    {JsonFile(PyDict(IF ks = {} THEN <<>> ELSE [k \in ks |-> isoformat(Epoch - 1)])) :
        ks \in SUBSET Ids}

InitFilter ==
    /\ file \in FilterFiles
    /\ retention_days = DefaultRetentionDays
    /\ state = load_state(file)
    /\ now = Epoch
    /\ call = [NoCall EXCEPT !.cands = <<>>]
    /\ pc = "api"
    /\ articles \in SeqsUpTo(Ids, Cardinality(Ids))
    /\ new_articles = <<>>
    /\ idx = 0
    /\ posted_count = 0
    /\ failed_count = 0
    /\ exit_code = 0
    /\ runs = 0
    /\ hist = <<>>
    /\ peer = NoPeer

IsPosted(id) ==
    /\ call' = [NoCall EXCEPT !.name = "is_posted", !.id = id,
                              !.found = is_posted(state, id), !.before = state]
    /\ UNCHANGED <<file, state, retention_days, now, mainVars>>

GetNewArticles ==
    /\ call' = [NoCall EXCEPT !.name = "get_new_articles", !.cands = articles,
                              !.result = get_new_articles(state, articles),
                              !.before = state]
    /\ UNCHANGED <<file, state, retention_days, now, mainVars>>

NextFilter ==
    \/ \E id \in Ids : IsPosted(id)
    \/ GetNewArticles

SpecFilter == InitFilter /\ [][NextFilter]_vars

-----------------------------------------------------------------------------
\* main(): repeated runs on one state file (Spec).

\* hist: delivered[id] counts the times post_article returned True for id over
\* all runs (2 stands for two or more), inRun[id] the same within the current
\* run and feed the articles that run fetched; failed holds the ids whose
\* post_article returned False, marked the ids mark_posted was called with;
\* loaded is the ledger the current run loaded; runWriteFails counts the
\* mark_posted calls of the current run whose write of the file failed;
\* pending holds the ids whose delivery failed in a run that delivered no
\* article with that id, and has not succeeded since; runFailed tells whether
\* a delivery of the current run failed and runMarks counts its mark_posted
\* calls;
\* saved[id] is the clock of the last mark_posted(id) that returned with the
\* file written (-1: none); lastEnd tells how the run before ended;
\* writeFailed whether a write of the file has failed so far.
NoCount == [id \in FeedIds |-> 0]

InitHist ==
    [delivered |-> NoCount, inRun |-> NoCount, failed |-> {}, marked |-> {},
     loaded |-> EmptyDict, feed |-> <<>>, saved |-> [id \in FeedIds |-> -1],
     lastEnd |-> "none", writeFailed |-> FALSE, runWriteFails |-> 0,
     pending |-> {}, runFailed |-> FALSE, runMarks |-> 0]

Init ==
    /\ file = Absent
    /\ state = EmptyDict
    /\ retention_days = DefaultRetentionDays
    /\ now = Epoch
    /\ pc = "idle"
    /\ articles = <<>>
    /\ new_articles = <<>>
    /\ idx = 0
    /\ posted_count = 0
    /\ failed_count = 0
    /\ exit_code = -1
    /\ runs = 0
    /\ hist = InitHist
    /\ call = NoCall
    /\ peer = NoPeer

Bump(n) == IF n < 2 THEN n + 1 ELSE n

\* What is remembered of a run once it is over: its counters are forgotten.
RunOver(h) ==
    [h EXCEPT !.runWriteFails = 0, !.runFailed = FALSE, !.runMarks = 0]

\* The process is gone: its memory with it.
Ended(code, how) ==
    /\ pc' = "idle"
    /\ state' = EmptyDict
    /\ exit_code' = code
    /\ articles' = <<>>
    /\ new_articles' = <<>>
    /\ idx' = 0
    /\ posted_count' = 0
    /\ failed_count' = 0

\* main, lines 55-71: return 1 without a webhook URL, else build the
\* components; StateManager() loads the state file.
Start(webhook) ==
    /\ pc = "idle"
    /\ runs < MaxRuns
    /\ runs' = runs + 1
    /\ IF ~webhook
       THEN /\ exit_code' = 1
            /\ hist' = [hist EXCEPT !.lastEnd = "exit"]
            /\ UNCHANGED <<pc, state, articles, new_articles, idx,
                           posted_count, failed_count>>
       ELSE /\ pc' = "init"
            /\ state' = load_state(file)
            /\ hist' = [hist EXCEPT !.loaded = load_state(file), !.inRun = NoCount,
                                 !.feed = <<>>, !.runWriteFails = 0,
                                 !.runFailed = FALSE, !.runMarks = 0]
            /\ UNCHANGED <<exit_code, articles, new_articles, idx,
                           posted_count, failed_count>>
    /\ UNCHANGED <<file, retention_days, now, call, peer>>

\* main, lines 73-90: fetch (an empty list when the fetch fails), filter, and
\* return 0 when there is nothing to post.
Fetch(feed) ==
    /\ pc = "init"
    /\ LET new == get_new_articles(state, feed)
       IN  IF feed = <<>> \/ new = <<>>
           THEN /\ Ended(0, "exit")
                /\ hist' = RunOver([hist EXCEPT !.lastEnd = "exit", !.feed = feed])
           ELSE /\ pc' = "loop"
                /\ articles' = feed
                /\ new_articles' = new
                /\ idx' = 1
                /\ posted_count' = 0
                /\ failed_count' = 0
                /\ hist' = [hist EXCEPT !.feed = feed]
                /\ UNCHANGED <<state, exit_code>>
    /\ UNCHANGED <<file, retention_days, now, runs, call, peer>>

\* The loop recording every article, delivered or not.
ShouldMark_Always(success) == TRUE

\* The loop with the test of the result inverted.
ShouldMark_Inverted(success) == ~success

\* main, line 101: what the loop does with the result of post_article.
ShouldMark(success) == success

\* main, lines 92-106: one iteration of the loop. An exception of mark_posted
\* is not caught: the interpreter exits with status 1.
ProcessArticle(success, d, wr) ==
    /\ pc = "loop"
    /\ idx <= Len(new_articles)
    /\ now + d <= Horizon
    /\ LET id == new_articles[idx]
           r == mark_posted(state, file, id, now, now + d, retention_days, wr)
           h == IF success
                THEN [hist EXCEPT !.delivered[id] = Bump(@), !.inRun[id] = @ + 1,
                                  !.pending = @ \ {id}]
                ELSE [hist EXCEPT !.failed = @ \cup {id},
                                  !.runFailed = TRUE,
                                  !.pending = IF hist.inRun[id] = 0
                                              THEN @ \cup {id} ELSE @]
       IN  IF ShouldMark(success)
           THEN /\ file' = r.file
                /\ now' = now + d
                /\ IF r.raised
                   THEN /\ Ended(1, "exit")
                        /\ hist' = RunOver([h EXCEPT !.marked = @ \cup {id},
                                                     !.lastEnd = "exit"])
                   ELSE /\ state' = r.state
                        /\ idx' = idx + 1
                        /\ posted_count' = posted_count + 1
                        /\ hist' = [h EXCEPT
                              !.marked = @ \cup {id},
                              !.runMarks = @ + 1,
                              !.saved[id] = IF r.written THEN now ELSE @,
                              !.writeFailed = @ \/ ~r.written,
                              !.runWriteFails = IF r.written THEN @ ELSE @ + 1]
                        /\ UNCHANGED <<pc, articles, new_articles, failed_count,
                                       exit_code>>
           ELSE /\ idx' = idx + 1
                /\ failed_count' = failed_count + 1
                /\ hist' = h
                /\ UNCHANGED <<file, state, now, pc, articles, new_articles,
                               posted_count, exit_code>>
    /\ UNCHANGED <<retention_days, runs, call, peer>>

\* main returning 0 whatever the deliveries did.
ExitCode_AlwaysZero(failed) == 0

\* main, line 111: return 0 if failed_count == 0 else 1.
ExitCode(failed) == IF failed = 0 THEN 0 ELSE 1

\* main, lines 108-111.
Finish ==
    /\ pc = "loop"
    /\ idx > Len(new_articles)
    /\ Ended(ExitCode(failed_count), "exit")
    /\ hist' = RunOver([hist EXCEPT !.lastEnd = "exit"])
    /\ UNCHANGED <<file, retention_days, now, runs, call, peer>>

\* The process is killed (or the machine stops) between two statements of
\* main: before an article is posted, or after post_article returned True and
\* before mark_posted is called.
Kill(posted) ==
    /\ pc \in {"init", "loop"}
    /\ posted => pc = "loop" /\ idx <= Len(new_articles)
    /\ Ended(exit_code, "killed")
    /\ hist' = RunOver(IF posted
               THEN [hist EXCEPT !.delivered[new_articles[idx]] = Bump(@),
                                 !.inRun[new_articles[idx]] = @ + 1,
                                 !.pending = @ \ {new_articles[idx]},
                                 !.lastEnd = "killed"]
               ELSE [hist EXCEPT !.lastEnd = "killed"])
    /\ UNCHANGED <<file, retention_days, now, runs, call, peer>>

\* The process is killed inside _save_state, lines 53-54: open(.., 'w') has
\* truncated the file and json.dump has not written the whole document.
KillInSave ==
    /\ pc = "loop"
    /\ idx <= Len(new_articles)
    /\ LET id == new_articles[idx]
           c == cleanup_old_entries(PyDict(Put(state.d, id, isoformat(now))),
                                    now, retention_days)
       IN  /\ state.kind = "dict"
           /\ ~c.raised
           /\ file' = Malformed
           /\ hist' = RunOver([hist EXCEPT !.delivered[id] = Bump(@),
                                           !.inRun[id] = @ + 1,
                                           !.pending = @ \ {id},
                                           !.marked = @ \cup {id},
                                           !.lastEnd = "killed"])
    /\ Ended(exit_code, "killed")
    /\ UNCHANGED <<retention_days, now, runs, call, peer>>

Next ==
    \/ \E webhook \in BOOLEAN : Start(webhook)
    \/ \E feed \in SeqsUpTo(FeedIds, MaxFeed) : Fetch(feed)
    \/ \E success \in BOOLEAN, d \in StmtAdvances, wr \in WriteOutcomes :
          ProcessArticle(success, d, wr)
    \/ Finish
    \/ \E posted \in BOOLEAN : Kill(posted)
    \/ KillInSave
    \/ \E days \in DayAdvances : AdvanceClock(days)

Spec == Init /\ [][Next]_vars

\* Two invocations of the program interleaved on one state file, each run
\* once: the variables of main and the ledger in memory are those of the
\* invocation taking steps, peer holds the other one. Nothing in
\* StateManager.__init__ or _save_state locks the file, so the scheduler may
\* switch between the two at any statement.
Switch ==
    /\ pc' = peer.pc
    /\ state' = peer.state
    /\ articles' = peer.articles
    /\ new_articles' = peer.new_articles
    /\ idx' = peer.idx
    /\ posted_count' = peer.posted_count
    /\ failed_count' = peer.failed_count
    /\ exit_code' = peer.exit_code
    /\ hist' = [hist EXCEPT !.inRun = peer.inRun, !.loaded = peer.loaded,
                            !.feed = peer.feed,
                            !.runWriteFails = peer.runWriteFails,
                            !.runFailed = peer.runFailed,
                            !.runMarks = peer.runMarks]
    /\ peer' = [pc |-> pc, state |-> state, articles |-> articles,
                new_articles |-> new_articles, idx |-> idx,
                posted_count |-> posted_count, failed_count |-> failed_count,
                exit_code |-> exit_code, inRun |-> hist.inRun,
                loaded |-> hist.loaded, feed |-> hist.feed,
                runWriteFails |-> hist.runWriteFails,
                runFailed |-> hist.runFailed, runMarks |-> hist.runMarks]
    /\ UNCHANGED <<file, retention_days, now, runs, call>>

\* An invocation that has not run yet starts.
Launch(webhook) ==
    /\ exit_code = -1
    /\ Start(webhook)

NextConcurrent ==
    \/ \E webhook \in BOOLEAN : Launch(webhook)
    \/ \E feed \in SeqsUpTo(FeedIds, MaxFeed) : Fetch(feed)
    \/ \E success \in BOOLEAN, d \in StmtAdvances, wr \in WriteOutcomes :
          ProcessArticle(success, d, wr)
    \/ Finish
    \/ Switch

SpecConcurrent == Init /\ [][NextConcurrent]_vars

-----------------------------------------------------------------------------
\* Properties of the runs of main() (Spec).

Succeeded == {id \in FeedIds : hist.delivered[id] > 0}
Occurrences(xs, x) == Cardinality({i \in 1..Len(xs) : xs[i] = x})
FileKeys == IF file.kind = "json" THEN Keys(file.val) ELSE {}

\* C1, as stated: over any sequence of runs on one state file, every article
\* id is delivered (post_article returning True) at most once.
C1_DeliveredAtMostOnce == \A id \in FeedIds : hist.delivered[id] <= 1

\* C1, amended: an id is delivered in a run only if it is not a key of the
\* ledger that run loaded, and at most as often as the feed of the run lists
\* it. An id delivered before is thus delivered again only when its entry is
\* missing from the loaded ledger: never written, lost with the file, or swept
\* after the retention window.
C1_DeliveredOnlyIfNotLoaded ==
    \A id \in FeedIds :
        /\ hist.inRun[id] > 0 => ~is_posted(hist.loaded, id)
        /\ hist.inRun[id] <= Occurrences(hist.feed, id)

\* C1, witness: a run that loaded the entry of an id delivered by an earlier
\* run, found the id in its feed again, and went through its batch without
\* delivering it.
C1_Witness ==
    \E id \in FeedIds :
        /\ pc = "loop"
        /\ idx > Len(new_articles)
        /\ runs >= 2
        /\ hist.delivered[id] = 1
        /\ hist.inRun[id] = 0
        /\ Occurrences(hist.feed, id) > 0
        /\ is_posted(hist.loaded, id)

\* C2: starting from an absent state file, every key of the ledger, in memory
\* and in the file, is the id of an article for which post_article returned
\* True earlier, and mark_posted is called with such ids only.
C2_KeysWereDelivered ==
    /\ Keys(state) \subseteq Succeeded
    /\ FileKeys \subseteq Succeeded
    /\ hist.marked \subseteq Succeeded

\* C2, witness: a run in which the delivery of one article failed and that of
\* another succeeded; the second is in the file, the first is in neither.
C2_Witness ==
    \E id \in hist.failed, other \in FeedIds :
        /\ pc = "loop"
        /\ id \notin Succeeded
        /\ id \notin Keys(state) \cup FileKeys \cup hist.marked
        /\ other \in FileKeys
        /\ other \in Keys(state)

\* C4: after a crash at any point of a run, the ledger loaded by the next run
\* holds every unexpired id whose mark_posted call had completed, with the
\* file written, before the crash (no write of the file having failed).
C4_CrashKeepsConfirmed ==
    (pc = "init" /\ hist.lastEnd = "killed" /\ ~hist.writeFailed) =>
        \A id \in FeedIds :
            (/\ hist.saved[id] >= 0
             /\ hist.saved[id] >= now - retention_days * TicksPerDay)
                => is_posted(state, id)

-----------------------------------------------------------------------------
\* Properties of the StateManager interface (SpecLedger).

\* A timestamp is parsable when it is what isoformat writes for some clock
\* value, and TimeOf is that value; FromIso reads the clock value off the
\* digits of the date and of the fraction.
FromIso(s) ==
    (s[1] - 48) * 10 * TicksPerDay + (s[2] - 48) * TicksPerDay
        + (IF Len(s) = 4 THEN s[4] - 48 ELSE 0)
IsIso(ts) ==
    /\ ts.kind = "str"
    /\ Len(ts.s) \in {2, 4}
    /\ FromIso(ts.s) \in 0..Horizon
    /\ isoformat(FromIso(ts.s)) = ts
TimeOf(ts) == FromIso(ts.s)

Marked == call.name = "mark_posted" /\ ~call.raised
Window == retention_days * TicksPerDay
Others(st) == Keys(st) \ {call.id}
FileLedger == IF file.kind = "json" THEN file.val ELSE EmptyDict

\* C3, as stated: for every ledger state, id and retention, once
\* mark_posted(id) has returned, a StateManager constructed anew on the same
\* file reports is_posted(id).
C3_DurableOnceReturned == Marked => is_posted(load_state(file), call.id)

\* C3, amended: once mark_posted(id) has returned with the state file
\* written, under a retention not shorter than the time that passed between
\* the two clock reads of the call (any retention of a day or more), a
\* StateManager constructed anew on the same file reports is_posted(id).
C3_DurableOnceWritten ==
    (Marked /\ call.written /\ call.t2 - call.t1 <= Window)
        => is_posted(load_state(file), call.id)

\* C3, witness: an id that was not in the ledger is recorded under a retention
\* of one day while the clock moves on, and the file holds it.
C3_Witness ==
    /\ Marked
    /\ call.written
    /\ retention_days = 1
    /\ call.t2 > call.t1
    /\ ~is_posted(call.before, call.id)
    /\ is_posted(load_state(file), call.id)

\* C5: constructing a StateManager on a file of any content and calling it
\* never raises.
C5_LedgerNeverRaises == ~call.raised

\* C6: after a mark_posted whose persist succeeded, no entry of the ledger, in
\* memory or in the file, is older than the clock of the sweep minus the
\* retention, and every other entry that was in the ledger before the call
\* and is not older than that is still there, in both, with its timestamp.
C6_RetentionSweep ==
    (Marked /\ call.written) =>
        LET cutoff == call.t2 - Window
        IN  /\ \A st \in {state, FileLedger} : \A k \in Keys(st) :
                  IsIso(st.d[k]) => TimeOf(st.d[k]) >= cutoff
            /\ \A k \in Others(call.before) :
                  (IsIso(call.before.d[k]) /\ TimeOf(call.before.d[k]) >= cutoff)
                      => /\ k \in Keys(state) /\ state.d[k] = call.before.d[k]
                         /\ k \in Keys(FileLedger)
                         /\ FileLedger.d[k] = call.before.d[k]

\* C6, witness: under the retention of 30 days, a ledger with an entry aged 31
\* days and an entry aged 29 days; after the call the first is gone from
\* memory and file and the second is in both.
C6_Witness ==
    /\ Marked
    /\ call.written
    /\ retention_days = DefaultRetentionDays
    /\ \E old \in Others(call.before), young \in Others(call.before) :
          /\ call.before.d[old] = isoformat(call.t2 - (DefaultRetentionDays + 1) * TicksPerDay)
          /\ call.before.d[young] = isoformat(call.t2 - (DefaultRetentionDays - 1) * TicksPerDay)
          /\ old \notin Keys(state) \cup Keys(FileLedger)
          /\ young \in Keys(state) \cap Keys(FileLedger)

\* C7: every entry whose posted_at is not a parsable timestamp is still in the
\* ledger after the sweep of a mark_posted call, and with such an entry in the
\* ledger the sweep and the persist still complete: the file is written
\* whenever writing it does not fail.
C7_UnparsableKept ==
    Marked =>
        \A k \in Others(call.before) :
            ~IsIso(call.before.d[k]) =>
                /\ k \in Keys(state)
                /\ call.wr = "ok" => call.written

\* C8: a StateManager constructed on a file that is absent, unreadable, or
\* anything but a JSON object of strings reports is_posted false for every id.
IsLedgerFile(f) ==
    /\ f.kind = "json"
    /\ f.val.kind = "dict"
    /\ \A k \in DOMAIN f.val.d : f.val.d[k].kind = "str"

C8_LoadDegradesToEmpty ==
    (call.name = "construct" /\ ~IsLedgerFile(file)) =>
        \A id \in Ids : ~is_posted(state, id)

\* C10. No entry other than id is removed by the sweep of the second call.
NoneCrossed ==
    \A k \in Others(call.before) :
        call.before.d[k].kind = "str"
            => KeepEntry(call.before.d[k], isoformat(call.t2 - Window))

SecondMark == Marked /\ call.prevMark = call.id

\* C10, as stated: after mark_posted(id) twice, is_posted(id) holds and the
\* keys are those after the first call, when no other entry crossed the
\* cutoff in between.
C10_RecordTwice ==
    SecondMark =>
        /\ is_posted(state, call.id)
        /\ NoneCrossed => Keys(state) = Keys(call.before)

\* C10, amended: the same under a retention not shorter than the time that
\* passes between the two clock reads of each of the two calls (any retention
\* of a day or more).
C10_RecordTwiceWithinWindow ==
    (SecondMark /\ call.prevSpan <= Window /\ call.t2 - call.t1 <= Window)
        => /\ is_posted(state, call.id)
           /\ NoneCrossed => Keys(state) = Keys(call.before)

\* C10, witness: the second call replaces the timestamp of the first and the
\* ledger holds the same keys, more than one.
C10_Witness ==
    /\ SecondMark
    /\ retention_days >= 1
    /\ is_posted(state, call.id)
    /\ state.d[call.id] # call.before.d[call.id]
    /\ Keys(state) = Keys(call.before)
    /\ Cardinality(Keys(state)) >= 2

-----------------------------------------------------------------------------
\* Properties of the queries (SpecFilter).

\* The positions of the candidates that are not in the ledger, and the number
\* of them up to position i.
NewAt(st, cands) == {i \in 1..Len(cands) : cands[i] \notin Keys(st)}
Rank(S, i) == Cardinality({j \in S : j <= i})

IsFilterOf(result, st, cands) ==
    /\ Len(result) = Cardinality(NewAt(st, cands))
    /\ \A i \in NewAt(st, cands) : result[Rank(NewAt(st, cands), i)] = cands[i]

C9_Result ==
    /\ call.name = "get_new_articles"
          => IsFilterOf(call.result, call.before, call.cands)
    /\ call.name = "is_posted" => (call.found <=> call.id \in Keys(call.before))

\* C9: get_new_articles returns exactly the candidates whose id is not in the
\* ledger, in their order, and the queries leave the ledger in memory and the
\* state file as they were.
C9_FilterIsExactAndPure ==
    /\ []C9_Result
    /\ [][state' = state /\ file' = file]_vars

\* C9, witness: ledger {A, C}, candidates [A, B, C, D], result [B, D].
C9_Witness ==
    /\ call.name = "get_new_articles"
    /\ Keys(state) = {"A", "C"}
    /\ call.cands = <<"A", "B", "C", "D">>
    /\ call.result = <<"B", "D">>
    /\ file = JsonFile(state)

-----------------------------------------------------------------------------
\* Further properties of the runs of main() (Spec).

\* The step is a mark_posted call of main whose write of the file failed.
WriteFailedStep == hist'.runWriteFails = hist.runWriteFails + 1

\* An entry is unexpired at clock t when its time is not before t minus the
\* retention.
Unexpired(ts, t) == IsIso(ts) /\ TimeOf(ts) >= t - Window

\* C11, the step: when the write fails inside mark_posted(id), the call
\* returns, the loop goes on to the next article, id is in the ledger in
\* memory and so is every other entry that was there and is unexpired.
C11_FailedWriteStep ==
    WriteFailedStep =>
        /\ pc' = "loop"
        /\ idx' = idx + 1
        /\ posted_count' = posted_count + 1
        /\ is_posted(state', new_articles[idx])
        /\ \A k \in Keys(state) \ {new_articles[idx]} :
              Unexpired(state.d[k], now')
                  => k \in Keys(state') /\ state'.d[k] = state.d[k]

\* C11, the rest of the process: an id recorded in this run stays in the
\* ledger in memory until the run ends.
C11_RecordedStays ==
    pc = "loop" => \A id \in FeedIds : hist.inRun[id] > 0 => is_posted(state, id)

\* C11: a failed write of the state file inside mark_posted(id) is not fatal
\* and rolls nothing back: the call returns, is_posted(id) is true for the
\* rest of the process, every other unexpired entry stays in memory, and the
\* driver continues with the next article.
C11_PersistFailureNotFatal ==
    /\ []C11_RecordedStays
    /\ [][C11_FailedWriteStep]_vars

\* C11, witness: a run that loaded an entry, recorded another id while the
\* write failed, holds both in memory and not the new one in the file, and
\* has a further article to process.
C11_Witness ==
    \E id \in FeedIds, other \in FeedIds :
        /\ pc = "loop"
        /\ idx <= Len(new_articles)
        /\ hist.runWriteFails > 0
        /\ hist.inRun[id] > 0
        /\ id \notin FileKeys
        /\ is_posted(state, id)
        /\ other # id
        /\ is_posted(hist.loaded, other)
        /\ is_posted(state, other)

\* The ids of a list of articles.
IdsOf(as) == {as[i] : i \in 1..Len(as)}

\* C12, not recorded: an id whose delivery failed, and none of whose
\* deliveries has succeeded in that run or since, is in no ledger, in memory
\* or in the file.
C12_FailedNotRecorded ==
    \A id \in hist.pending : ~is_posted(state, id) /\ id \notin FileKeys

\* C12, returned again: when a run has fetched and filtered, every such id
\* that is in the feed is among the new articles.
C12_ReturnedAgain ==
    (pc = "loop" /\ idx = 1)
        => \A id \in hist.pending \cap IdsOf(hist.feed) : id \in IdsOf(new_articles)

\* C12, the batch goes on: a failed delivery changes neither ledger nor file
\* and the loop moves to the next article; a run ends at the filter without
\* delivering only when no such id is in the feed.
C12_BatchGoesOn ==
    /\ failed_count' = failed_count + 1
          => /\ pc' = "loop"
             /\ idx' = idx + 1
             /\ state' = state
             /\ file' = file
    /\ (pc = "init" /\ pc' = "idle" /\ hist'.lastEnd = "exit")
          => hist.pending \cap IdsOf(hist'.feed) = {}

\* C12, recorded on success: when a delivery succeeds and mark_posted
\* returns, the id is in the ledger.
C12_RecordedOnSuccess ==
    (pc = "loop" /\ pc' = "loop" /\ posted_count' = posted_count + 1)
        => is_posted(state', new_articles[idx])

\* C12: failed deliveries are retried. An article whose delivery failed is
\* not in the ledger at the end of the run, the rest of the batch is still
\* attempted, every later run that finds the article in the feed gets it
\* back from get_new_articles, and it is recorded once its delivery succeeds.
C12_FailedAreRetried ==
    /\ [](C12_FailedNotRecorded /\ C12_ReturnedAgain)
    /\ [][C12_BatchGoesOn /\ C12_RecordedOnSuccess]_vars

\* C12, witness: an id whose delivery failed in the first run and that was
\* returned again by the filter of the second run, where its delivery
\* succeeded and it was recorded in memory and in the file.
C12_Witness ==
    \E id \in FeedIds :
        /\ runs = 2
        /\ pc = "loop"
        /\ id \in hist.failed
        /\ failed_count = 0
        /\ hist.inRun[id] = 1
        /\ hist.delivered[id] = 1
        /\ is_posted(state, id)
        /\ id \in FileKeys

-----------------------------------------------------------------------------
\* Further properties of the calls on a StateManager (SpecLedger).

\* The mapping a state file held when the last call was made.
FileLedgerBefore ==
    IF call.fileBefore.kind = "json" /\ call.fileBefore.val.kind = "dict"
    THEN call.fileBefore.val ELSE EmptyDict

\* C13: whenever the write of a mark_posted call succeeds, the mapping in the
\* state file equals the ledger in memory, so the file holds every unexpired
\* entry the ledger held before the call, the ids whose own write had failed
\* included.
C13_FileEqualsMemory ==
    (Marked /\ call.written) =>
        /\ file = JsonFile(state)
        /\ \A k \in Others(call.before) :
              Unexpired(call.before.d[k], call.t2)
                  => /\ k \in Keys(FileLedger)
                     /\ FileLedger.d[k] = call.before.d[k]

\* C13, witness: a mark_posted call whose write failed, so that its id was
\* in memory and not in the file, followed by one for another id whose write
\* succeeded: the file holds both ids and equals the ledger in memory.
C13_Witness ==
    /\ Marked
    /\ call.written
    /\ call.prevMark # ""
    /\ call.prevMark # call.id
    /\ call.prevMark \in Keys(call.before)
    /\ call.prevMark \notin Keys(FileLedgerBefore)
    /\ call.prevMark \in Keys(FileLedger)
    /\ call.id \in Keys(FileLedger)
    /\ file = JsonFile(state)

\* An entry is older than the cutoff of the sweep at clock t.
Expired(ts, t) == IsIso(ts) /\ TimeOf(ts) < t - Window

\* C14, in memory: mark_posted(id) adds no key but id, changes the value of
\* no other key, removes only entries older than the cutoff, and keeps every
\* other entry that is within the retention window.
C14_FrameInMemory ==
    Marked =>
        /\ Keys(state) \subseteq Keys(call.before) \cup {call.id}
        /\ \A k \in Others(call.before) :
              /\ k \in Keys(state) => state.d[k] = call.before.d[k]
              /\ k \notin Keys(state) => Expired(call.before.d[k], call.t2)
              /\ Unexpired(call.before.d[k], call.t2) => k \in Keys(state)

\* C14, in the file: every other entry of the file that is within the
\* retention window is in the file after the call, with its value.
C14_FrameInFile ==
    Marked =>
        \A k \in Keys(FileLedgerBefore) \ {call.id} :
            Unexpired(FileLedgerBefore.d[k], call.t2)
                => /\ file.kind = "json"
                   /\ file.val.kind = "dict"
                   /\ k \in Keys(file.val)
                   /\ file.val.d[k] = FileLedgerBefore.d[k]

\* C14: mark_posted(id) changes only the entry for id and removes only
\* entries older than the retention cutoff; every other entry within the
\* retention window keeps its key and its posted_at value, in memory and in
\* the file.
C14_FrameOfRecord == C14_FrameInMemory /\ C14_FrameInFile

-----------------------------------------------------------------------------
\* The exit code of a run of main() (Spec).

\* The deliveries of the current run that succeeded.
RECURSIVE SumInRun(_)
SumInRun(S) ==
    IF S = {} THEN 0
    ELSE LET id == CHOOSE x \in S : TRUE
         IN  hist.inRun[id] + SumInRun(S \ {id})

\* C16, without a webhook URL: main returns 1 and has fetched nothing,
\* delivered nothing and touched neither ledger nor file.
C16_NoWebhook ==
    (pc = "idle" /\ runs' = runs + 1 /\ pc' = "idle")
        => /\ exit_code' = 1
           /\ file' = file
           /\ state' = state
           /\ hist'.feed = hist.feed
           /\ hist'.delivered = hist.delivered
           /\ hist'.failed = hist.failed
           /\ hist'.marked = hist.marked

\* C16, nothing to post: with an empty feed or no new article main returns 0
\* and leaves the file as it was, having delivered and recorded nothing.
C16_NothingToPost ==
    (pc = "init" /\ pc' = "idle" /\ hist'.lastEnd = "exit")
        => /\ exit_code' = 0
           /\ IdsOf(hist'.feed) \subseteq Keys(state)
           /\ file' = file
           /\ hist'.delivered = hist.delivered
           /\ hist'.failed = hist.failed
           /\ hist'.marked = hist.marked

\* C16, after the loop: main returns 0 exactly when no delivery of the run
\* failed, and 1 otherwise.
C16_AfterLoop ==
    (pc = "loop" /\ pc' = "idle" /\ hist'.lastEnd = "exit")
        => /\ exit_code' = (IF hist.runFailed THEN 1 ELSE 0)
           /\ hist.runMarks = SumInRun(FeedIds)

\* C16, the calls: while a run is in its loop it has called mark_posted once
\* for every delivery that succeeded.
C16_MarksAreSuccesses ==
    pc = "loop" => hist.runMarks = SumInRun(FeedIds) /\ hist.runMarks = posted_count

\* C16: main returns 1 without a webhook URL, having fetched, delivered and
\* recorded nothing; otherwise it returns 0 exactly when no delivery of the
\* run failed (an empty feed and no new article included, which leave ledger
\* and file unchanged) and 1 when one failed; the mark_posted calls of the run
\* are as many as its successful deliveries.
C16_ExitCode ==
    /\ []C16_MarksAreSuccesses
    /\ [][C16_NoWebhook /\ C16_NothingToPost /\ C16_AfterLoop]_vars

\* C16, witness: a run that delivered one article, failed to deliver
\* another, called mark_posted once and returned 1.
C16_Witness ==
    /\ pc = "idle"
    /\ runs = 1
    /\ hist.lastEnd = "exit"
    /\ exit_code = 1
    /\ hist.failed # {}
    /\ Cardinality(hist.marked) = 1
    /\ SumInRun(FeedIds) = 1

-----------------------------------------------------------------------------
\* Two interleaved invocations (SpecConcurrent).

\* The ids an invocation has delivered and recorded in its run.
RecordedIn(inRun) == {id \in FeedIds : inRun[id] > 0}

\* C15, loaded once: the ledger in memory of each invocation holds only what
\* it loaded when it started and what it recorded itself.
C15_LoadedOnce ==
    /\ Keys(state) \subseteq Keys(hist.loaded) \cup RecordedIn(hist.inRun)
    /\ Keys(peer.state) \subseteq Keys(peer.loaded) \cup RecordedIn(peer.inRun)

\* C15, whole file: every step that changes the state file leaves in it the
\* whole ledger in memory of the invocation that took the step, or the
\* remains of a dump that failed.
C15_WholeFile ==
    file' # file => file' = JsonFile(state') \/ file' = Malformed

\* C15: nothing guards concurrent runs. Each of two interleaved invocations
\* loads its ledger once at start and rewrites the whole file from its own
\* memory; so an id recorded by one can be missing from the file after the
\* other persisted, and both can deliver the same article.
C15_NoGuard ==
    /\ []C15_LoadedOnce
    /\ [][C15_WholeFile]_vars

\* C15, witness: no write has failed and both invocations are in their
\* loops; both have delivered article a; the other one recorded b and wrote
\* it to the file, and after this one persisted the file is its own ledger,
\* without b.
C15_Witness ==
    \E a \in FeedIds, b \in FeedIds :
        /\ hist.inRun[a] > 0
        /\ peer.inRun[a] > 0
        /\ hist.delivered[a] = 2
        /\ peer.inRun[b] > 0
        /\ hist.inRun[b] = 0
        /\ hist.saved[b] >= 0
        /\ is_posted(peer.state, b)
        /\ pc = "loop"
        /\ peer.pc = "loop"
        /\ ~hist.writeFailed
        /\ hist.runMarks > 0
        /\ file = JsonFile(state)
        /\ b \notin FileKeys

====
